---------------------------- MODULE Spec2Model ----------------------------
(***************************************************************************)
(* installSynApps: the install configuration, its parser, the injector and *)
(* the macro updater, as state machines.                                   *)
(*                                                                         *)
(* A string is a sequence of symbols.  A symbol is written as a short      *)
(* string ("A", "=", "RELEASE"); the inputs are chosen so that the code    *)
(* never has to look inside one.  A text file is the string of its         *)
(* content, line ends ("\n") included.                                     *)
(***************************************************************************)
EXTENDS Integers, Sequences, FiniteSets, TLC

VARIABLES
    \* ---- the manifest and its readers
    manifest,            \* the text of configure/INSTALL_CONFIG
    script_result,       \* what read_install_config_file() has returned or raised
    parse_env,           \* what parse_install_config is called with and finds on disk
    parse_result,        \* what parse_install_config has returned or raised
    \* ---- InstallConfiguration
    install_config,      \* the configuration object add_module is called on
    \* ---- ConfigInjector.inject_to_file: the disk
    disk_dirs,           \* the directories there are
    disk_files,          \* the files there are: path -> text
    inject_result,       \* how the last inject_to_file call ended
    injects,             \* inject_to_file calls made so far
    \* ---- ConfigInjector.update_macros: the target directory
    dir_exists,          \* os.path.exists(target_dir) and os.path.isdir(target_dir)
    files,               \* regular files directly inside target_dir: name -> text
    old_dir,             \* target_dir/OLD_FILES exists
    old_files,           \* files inside target_dir/OLD_FILES: name -> text
    macro_replace_list,  \* the list object handed to update_macros
    calls                \* update_macros calls made so far

vars == <<manifest, script_result, parse_env, parse_result, install_config,
         disk_dirs, disk_files, inject_result, injects, dir_exists, files, old_dir, old_files, macro_replace_list, calls>>

(***************************************************************************)
(* Files of a directory or a disk: a function from the names there are     *)
(***************************************************************************)
\* the file k gone (os.rename away)
Remove(f, k) == [x \in DOMAIN f \ {k} |-> f[x]]

\* the file k made or replaced, holding v
Put(f, k, v) == [x \in DOMAIN f \cup {k} |-> IF x = k THEN v ELSE f[x]]

(***************************************************************************)
(* Python's str operations                                                 *)
(***************************************************************************)
NL == "\n"

\* s.startswith(p)
StartsWith(s, p) == Len(s) >= Len(p) /\ SubSeq(s, 1, Len(p)) = p

\* s.endswith(p)
EndsWith(s, p) == Len(s) >= Len(p) /\ SubSeq(s, Len(s) - Len(p) + 1, Len(s)) = p

\* p in s
Contains(s, p) == \E i \in 0..(Len(s) - Len(p)) : SubSeq(s, i + 1, i + Len(p)) = p

IsSpace(c) == c \in {" ", "\t", "\n", "\r"}

RECURSIVE LStrip(_)
LStrip(s) == IF s # <<>> /\ IsSpace(Head(s)) THEN LStrip(Tail(s)) ELSE s

RECURSIVE RStrip(_)
RStrip(s) == IF s # <<>> /\ IsSpace(s[Len(s)]) THEN RStrip(SubSeq(s, 1, Len(s) - 1)) ELSE s

\* s.strip()
Strip(s) == RStrip(LStrip(s))

\* index of the first c in s, 0 when there is none
RECURSIVE IndexFrom(_, _, _)
IndexFrom(s, c, i) ==
    IF i > Len(s) THEN 0 ELSE IF s[i] = c THEN i ELSE IndexFrom(s, c, i + 1)

\* s.split(c): the pieces between the occurrences of the symbol c
RECURSIVE Split(_, _)
Split(s, c) ==
    LET i == IndexFrom(s, c, 1)
    IN  IF i = 0 THEN <<s>>
        ELSE <<SubSeq(s, 1, i - 1)>> \o Split(SubSeq(s, i + 1, Len(s)), c)

\* the lines fp.readline() returns one after the other: each ends with its
\* "\n", but for a last line the file does not terminate
RECURSIVE ReadLines(_)
ReadLines(text) ==
    LET i == IndexFrom(text, NL, 1)
    IN  IF text = <<>> THEN <<>>
        ELSE IF i = 0 THEN <<text>>
        ELSE <<SubSeq(text, 1, i)>> \o ReadLines(SubSeq(text, i + 1, Len(text)))



(***************************************************************************)
(* InstallConfiguration (installSynApps/DataModel/install_config.py) and   *)
(* InstallModule: add_module and convert_path_abs                          *)
(***************************************************************************)
\* Python's None, where a path is expected
None == <<"None">>

INSTALL_MACRO == <<"$", "(", "INSTALL", ")">>

\* the remainder of the string after the closing paren
AfterParen(path) == SubSeq(path, IndexFrom(path, ")", 1) + 1, Len(path))

\* the NAME of the first $(NAME) of path
MacroName(path) == SubSeq(path, IndexFrom(path, "(", 1) + 1, IndexFrom(path, ")", 1) - 1)

HasMacro(path) ==
    /\ Contains(path, <<"$", "(">>)
    /\ IndexFrom(path, "(", 1) < IndexFrom(path, ")", 1)

\* the index of the first module called name, 0 when there is none
RECURSIVE ModuleIndex(_, _, _)
ModuleIndex(modules, name, i) ==
    IF i > Len(modules) THEN 0
    ELSE IF modules[i].name = name THEN i
    ELSE ModuleIndex(modules, name, i + 1)

\* InstallConfiguration(install_location, path_to_configure)
InstallConfiguration(install_location, configure_path) ==
    [install_location |-> install_location,
     configure_path |-> configure_path,
     modules |-> <<>>,
     base_path |-> None,
     support_path |-> None,
     ad_path |-> None,
     injector_files |-> <<>>,
     build_flags |-> <<>>]

\* InstallModule(name, version, rel_path, url_type, url, repository, clone, build)
InstallModule(name, version, rel_path, url_type, url, repository, clone, build) ==
    [name |-> name, version |-> version, rel_path |-> rel_path,
     abs_path |-> None, url_type |-> url_type, url |-> url,
     repository |-> repository, clone |-> clone, build |-> build]

\* convert_path_abs resolving $(INSTALL) alone
convert_path_abs_install_only(cfg, rel_path) ==
    IF Contains(rel_path, INSTALL_MACRO)
    THEN cfg.install_location \o AfterParen(rel_path)
    ELSE rel_path

\* install_config.convert_path_abs(rel_path): $(INSTALL) is the install
\* location, $(NAME) the absolute path of the module of that name added
\* before; a macro that names no module yet is left as it stands
convert_path_abs(cfg, rel_path) ==
    IF Contains(rel_path, INSTALL_MACRO)
    THEN cfg.install_location \o AfterParen(rel_path)
    ELSE IF HasMacro(rel_path) /\ ModuleIndex(cfg.modules, MacroName(rel_path), 1) # 0
    THEN cfg.modules[ModuleIndex(cfg.modules, MacroName(rel_path), 1)].abs_path
         \o AfterParen(rel_path)
    ELSE rel_path

\* install_config.add_module(module): the path is resolved as the module is
\* added, a module of a well-known name sets that path, the module is appended
add_module(cfg, module) ==
    LET abs == convert_path_abs(cfg, module.rel_path)
    IN  [cfg EXCEPT
            !.modules = Append(@, [module EXCEPT !.abs_path = abs]),
            !.base_path = IF module.name = <<"EPICS_BASE">> THEN abs ELSE @,
            !.support_path = IF module.name = <<"SUPPORT">> THEN abs ELSE @,
            !.ad_path = IF module.name = <<"AREA_DETECTOR">> THEN abs ELSE @]

\* install_config.add_injector_file(name, contents, target)
add_injector_file(cfg, name, contents, target) ==
    [cfg EXCEPT !.injector_files =
        Append(@, [name |-> name, contents |-> contents, target |-> target])]

\* install_config.add_macros(macro_list)
add_macros(cfg, macros) == [cfg EXCEPT !.build_flags = @ \o macros]

(***************************************************************************)
(* add_module called on a configuration, as the tests do                   *)
(***************************************************************************)
MaxModules == 3

\* InstallConfiguration('/epics/test', 'configure')
TestRoot == <<"/", "epics", "/", "test">>

TestUrl == <<"https://github.com/dummyurl/test/">>

Mod(name, version, rel_path, repository) ==
    InstallModule(<<name>>, <<version>>, rel_path, <<"GIT_URL">>, TestUrl,
                  <<repository>>, <<"YES">>, <<"YES">>)

M(name) == <<"$", "(", name, ")">>

base_module == Mod("EPICS_BASE", "R7.0.2.2", INSTALL_MACRO \o <<"/", "base">>, "base")
support_module == Mod("SUPPORT", "R6-0", INSTALL_MACRO \o <<"/", "support">>, "support")
ad_module == Mod("AREA_DETECTOR", "R3-6", M("SUPPORT") \o <<"/", "areaDetector">>, "ad")
test_module == Mod("DUMMY", "R1-0", M("AREA_DETECTOR") \o <<"/", "dummy">>, "dummy")
\* further modules: one relative to a module of no well-known name, one
\* with an absolute path, a second SUPPORT elsewhere
sub_module == Mod("SUB", "R1-0", M("DUMMY") \o <<"/", "sub">>, "sub")
abs_module == Mod("ABS", "R1-0", <<"/", "opt", "/", "abs">>, "abs")
support2_module == Mod("SUPPORT", "R6-1", M("EPICS_BASE") \o <<"/", "support2">>, "support")

TestModules ==
    {base_module, support_module, ad_module, test_module, sub_module, abs_module,
     support2_module}

NotRun == [status |-> "not run"]

NoEnv == [exists |-> FALSE]

ManifestIdle ==
    /\ manifest = <<>>
    /\ script_result = NotRun
    /\ parse_env = NoEnv
    /\ parse_result = NotRun

manifest_vars == <<manifest, script_result, parse_env, parse_result>>

DiskIdle ==
    /\ disk_dirs = {}
    /\ disk_files = <<>>
    /\ inject_result = NotRun
    /\ injects = 0

disk_vars == <<disk_dirs, disk_files, inject_result, injects>>

ConfigIdle == install_config = InstallConfiguration(TestRoot, <<"configure">>)

(***************************************************************************)
(* scripts/read_install_config.py                                          *)
(***************************************************************************)
\* re.sub(' +', ' ', line)
RECURSIVE CollapseSpaces(_)
CollapseSpaces(s) ==
    IF Len(s) < 2 THEN s
    ELSE IF s[1] = " " /\ s[2] = " " THEN CollapseSpaces(Tail(s))
    ELSE <<s[1]>> \o CollapseSpaces(Tail(s))

\* the first module of the list whose name is name, 0 when there is none
RECURSIVE FindModule(_, _, _)
FindModule(current_modules, name, i) ==
    IF i > Len(current_modules) THEN 0
    ELSE IF current_modules[i][1] = name THEN i
    ELSE FindModule(current_modules, name, i + 1)

TypeError == <<"raise TypeError">>
IndexError == <<"raise IndexError">>

\* module[2] + path.split(')')[1] for the module of that name: None when the
\* loop finds no such module, TypeError when that module's path is None
ExpandFrom(name, path, current_modules) ==
    LET i == FindModule(current_modules, name, 1)
    IN  IF i = 0 THEN None
        ELSE IF current_modules[i][3] = None THEN TypeError
        ELSE current_modules[i][3] \o Split(path, ")")[2]

\* expand_module_path(path, current_modules, install_dir)
expand_module_path(path, current_modules, install_dir) ==
    IF Contains(path, INSTALL_MACRO) THEN install_dir \o Split(path, ")")[2]
    ELSE IF Contains(path, <<"$", "(", "SUPPORT", ")">>)
    THEN ExpandFrom(<<"SUPPORT">>, path, current_modules)
    ELSE IF Contains(path, <<"$", "(", "AREA_DETECTOR", ")">>)
    THEN ExpandFrom(<<"AREA_DETECTOR">>, path, current_modules)
    ELSE path

\* module_from_line(line, current_modules, install_dir, current_url, url_type):
\* the list of the fields, or the exception raised
module_from_line(line, current_modules, install_dir, current_url, url_type) ==
    LET module == Split(CollapseSpaces(line), " ")
    IN  IF Len(module) < 3 THEN IndexError
        ELSE LET path == expand_module_path(module[3], current_modules, install_dir)
             IN  IF path = TypeError THEN TypeError
                 ELSE IF Len(module) < 4 THEN IndexError
                 ELSE LET repo == IF Contains(module[4], <<"$", "(", "VERSION", ")">>)
                                  THEN Split(module[4], "$")[1] \o module[2]
                                       \o Split(module[4], ")")[2]
                                  ELSE module[4]
                      IN  [module EXCEPT ![3] = path, ![4] = repo]
                          \o <<current_url, url_type>>

\* the body of the while loop of read_install_config_file for one line; r
\* holds the local variables and what has been raised
ScriptLine(r, raw) ==
    IF r.raised # <<>> \/ StartsWith(raw, <<"#">>) \/ ~(Len(raw) > 1) THEN r
    ELSE LET line == Strip(raw)
         IN  IF Contains(line, <<"INSTALL">>) /\ ~Contains(line, INSTALL_MACRO)
             THEN IF Len(Split(line, "=")) < 2 THEN [r EXCEPT !.raised = IndexError]
                  ELSE [r EXCEPT !.install_location = Split(line, "=")[2]]
             ELSE IF Contains(line, <<"GIT_URL">>)
             THEN IF Len(Split(line, "=")) < 2 THEN [r EXCEPT !.raised = IndexError]
                  ELSE [r EXCEPT !.current_url = Split(line, "=")[2],
                                 !.url_type = <<"GIT_URL">>]
             ELSE IF Contains(line, <<"WGET_URL">>)
             THEN IF Len(Split(line, "=")) < 2 THEN [r EXCEPT !.raised = IndexError]
                  ELSE [r EXCEPT !.current_url = Split(line, "=")[2],
                                 !.url_type = <<"WGET_URL">>]
             ELSE LET module == module_from_line(line, r.current_modules,
                                     r.install_location, r.current_url, r.url_type)
                  IN  IF module \in {TypeError, IndexError}
                      THEN [r EXCEPT !.raised = module]
                      ELSE [r EXCEPT !.current_modules = Append(@, module)]

RECURSIVE ScriptLines(_, _)
ScriptLines(r, lines) ==
    IF lines = <<>> THEN r ELSE ScriptLines(ScriptLine(r, Head(lines)), Tail(lines))

\* read_install_config_file() on the manifest text
read_install_config_file(text) ==
    ScriptLines([current_url |-> <<>>, url_type |-> <<>>, install_location |-> <<>>,
                 current_modules |-> <<>>, raised |-> <<>>],
                ReadLines(text))

(***************************************************************************)
(* ConfigInjector.get_injector_file_link and inject_to_file                *)
(***************************************************************************)
START_MARKER ==
    <<"# ------------The following was auto-generated by installSynApps-------", NL>>

END_MARKER ==
    <<"# --------------------------Auto-generated end----------------------", NL>>

\* self.injector_file_links
injector_file_links ==
    [filename \in {<<"AD_RELEASE_CONFIG">>, <<"AUTOSAVE_CONFIG">>, <<"MAKEFILE_CONFIG">>,
                   <<"PLUGIN_CONFIG">>} |->
        M("AREA_DETECTOR") \o
        (CASE filename = <<"AD_RELEASE_CONFIG">> ->
                <<"/", "configure", "/", "RELEASE_PRODS", ".", "local">>
           [] filename = <<"AUTOSAVE_CONFIG">> ->
                <<"/", "ADCore", "/", "iocBoot", "/", "commonPlugin_settings", ".", "req">>
           [] filename = <<"MAKEFILE_CONFIG">> ->
                <<"/", "ADCore", "/", "ADApp", "/", "commonDriverMakefile">>
           [] filename = <<"PLUGIN_CONFIG">> ->
                <<"/", "ADCore", "/", "iocBoot", "/", "commonPlugins", ".", "cmd">>)]

\* get_injector_file_link(injector_file_path)
get_injector_file_link(injector_file_path) ==
    LET parts == Split(injector_file_path, "/")
    IN  injector_file_links[parts[Len(parts)]]

\* the index of the last c in s, 0 when there is none
RECURSIVE LastIndex(_, _, _)
LastIndex(s, c, i) == IF i = 0 THEN 0 ELSE IF s[i] = c THEN i ELSE LastIndex(s, c, i - 1)

\* the directory a path lies in
DirName(path) == SubSeq(path, 1, LastIndex(path, "/", Len(path)) - 1)

\* a fragment line inject_to_file writes
Injected(line) == ~StartsWith(line, <<"#">>) /\ Len(line) > 1

\* the while loop of inject_to_file: what it writes
RECURSIVE InjectLines(_)
InjectLines(lines) ==
    IF lines = <<>> THEN <<>>
    ELSE (IF Injected(Head(lines)) THEN Head(lines) ELSE <<>>) \o InjectLines(Tail(lines))

\* open(target_path, "a") and the writes: the text the target holds at the
\* close, starting from text
AppendedTo(text, fragment) ==
    text \o START_MARKER \o InjectLines(ReadLines(fragment)) \o END_MARKER

\* inject_to_file(injector_file_path) on a disk: the files afterwards and how
\* the call ended.  Opening for append makes a file that is not there, and
\* raises FileNotFoundError where its directory is not there either.
inject_to_file(cfg, dirs, fs, injector_file_path) ==
    LET target_path == convert_path_abs(cfg, get_injector_file_link(injector_file_path))
    IN  IF target_path \notin DOMAIN fs /\ DirName(target_path) \notin dirs
        THEN [files |-> fs, status |-> "raised FileNotFoundError"]
        ELSE [files |-> Put(fs, target_path,
                            AppendedTo(IF target_path \in DOMAIN fs THEN fs[target_path]
                                       ELSE <<>>,
                                       fs[injector_file_path])),
              status |-> "returned"]

(***************************************************************************)
(* ConfigInjector.get_macro_replace_from_file and update_macros            *)
(***************************************************************************)
\* A macro is the Python list line.strip().split('='): <<key, value>>, and
\* <<key, value, "DONE">> once update_macros has appended its mark.
DONE == <<"DONE">>

\* install_config.epics_arch
epics_arch == <<"linux-x86_64">>

EXAMPLE_ == <<"E", "X", "A", "M", "P", "L", "E", "_">>

OLD_FILES == <<"OLD_FILES">>

\* the loop of get_macro_replace_from_file over the lines of the macro file
RECURSIVE AppendMacros(_, _)
AppendMacros(macro_list, lines) ==
    IF lines = <<>> THEN macro_list
    ELSE LET line == Head(lines)
             next == IF ~StartsWith(line, <<"#">>) /\ Contains(line, <<"=">>)
                     THEN Append(macro_list, Split(Strip(line), "="))
                     ELSE macro_list
         IN  AppendMacros(next, Tail(lines))

\* get_macro_replace_from_file(macro_list, macro_file_path), the file holding text
get_macro_replace_from_file(macro_list, text) ==
    AppendMacros(macro_list, ReadLines(text))

\* "{}={}\n".format(macro[0], macro[1])
FormatMacro(macro) == macro[1] \o <<"=">> \o macro[2] \o <<NL>>

\* (macro[0] + "=") in line
KeyInLine(macro, line) == Contains(line, macro[1] \o <<"=">>)

\* the test of the DONE mark left out
UnconsumedAlways(macro) == TRUE

\* len(macro) < 3: the macro carries no DONE mark
Unconsumed(macro) == Len(macro) < 3

\* for macro in macro_replace_list: ... on one stripped line; r is what the
\* loop has done so far: the list, the text written, wrote_line
RECURSIVE ScanMacros(_, _, _)
ScanMacros(line, r, i) ==
    IF i > Len(r.macros) THEN r
    ELSE LET macro == r.macros[i]
         IN  IF KeyInLine(macro, line) /\ Unconsumed(macro)
             THEN ScanMacros(line,
                             [macros |-> [r.macros EXCEPT ![i] = Append(macro, DONE)],
                              out |-> r.out \o FormatMacro(macro),
                              wrote_line |-> TRUE],
                             i + 1)
             ELSE ScanMacros(line, r, i + 1)

\* what the body of the while loop writes when no macro wrote the line
Unmatched(line) ==
    IF ~StartsWith(line, <<"#">>) THEN <<"#">> \o line \o <<NL>> ELSE line \o <<NL>>

\* one pass of the while loop: the line read, stripped, scanned and written
RewriteLine(raw, macros) ==
    LET line == Strip(raw)
        r == ScanMacros(line, [macros |-> macros, out |-> <<>>, wrote_line |-> FALSE], 1)
    IN  [macros |-> r.macros,
         out |-> IF r.wrote_line THEN r.out ELSE Unmatched(line)]

\* the while loop over the lines of the old file
RECURSIVE RewriteLines(_, _, _)
RewriteLines(lines, macros, out) ==
    IF lines = <<>> THEN [macros |-> macros, out |-> out]
    ELSE LET r == RewriteLine(Head(lines), macros)
         IN  RewriteLines(Tail(lines), r.macros, out \o r.out)

\* the closing loop: a line for every macro that carries no DONE mark
RECURSIVE AppendUnconsumed(_)
AppendUnconsumed(macros) ==
    IF macros = <<>> THEN <<>>
    ELSE (IF Unconsumed(Head(macros)) THEN FormatMacro(Head(macros)) ELSE <<>>)
         \o AppendUnconsumed(Tail(macros))

\* the new file written from the old one
RewriteFile(text, macros) ==
    LET r == RewriteLines(ReadLines(text), macros, <<>>)
    IN  [macros |-> r.macros, out |-> r.out \o AppendUnconsumed(r.macros)]

\* file.endswith(epics_arch) or file.endswith(".local") or "." not in file
Eligible(file) ==
    \/ EndsWith(file, epics_arch)
    \/ EndsWith(file, <<".", "local">>)
    \/ ~Contains(file, <<".">>)

\* the name the rewritten file is opened under
NewName(file) ==
    IF StartsWith(file, EXAMPLE_) THEN SubSeq(file, 9, Len(file)) ELSE file

\* the body of the for loop over os.listdir(target_dir), for one entry;
\* st is the directory and the macro list as the loop has left them
ProcessFile(st, file) ==
    IF file \notin DOMAIN st.files THEN st
    ELSE LET text == st.files[file]
             moved == [st EXCEPT !.files = Remove(@, file),
                                 !.old_files = Put(@, file, text)]
         IN  IF Eligible(file)
             THEN LET r == RewriteFile(text, st.macros)
                  IN  [moved EXCEPT !.files = Put(@, NewName(file), r.out),
                                    !.macros = r.macros]
             ELSE moved

RECURSIVE ProcessAll(_, _)
ProcessAll(st, order) ==
    IF order = <<>> THEN st ELSE ProcessAll(ProcessFile(st, Head(order)), Tail(order))

\* update_macros(macro_replace_list, target_dir) with os.listdir returning
\* the entries in the given order
update_macros(macros, fs, old, order) ==
    ProcessAll([files |-> fs, old_files |-> old, macros |-> macros], order)

RECURSIVE Perms(_)
Perms(S) ==
    IF S = {} THEN {<<>>}
    ELSE UNION {{<<x>> \o p : p \in Perms(S \ {x})} : x \in S}

\* os.listdir(target_dir) after OLD_FILES has been made
ListDir == DOMAIN files \cup {OLD_FILES}

(***************************************************************************)
(* The directories and macro files the macro updater is run on             *)
(***************************************************************************)
MaxCalls == 2

EXAMPLE_RELEASE_local == EXAMPLE_ \o <<"RELEASE", ".", "local">>
RELEASE_local == <<"RELEASE", ".", "local">>
CONFIG_SITE == <<"CONFIG_SITE">>
README_md == <<"README", ".", "md">>

FileTexts ==
    { <<"A", "=", "0", NL>>,
      <<"X", "A", "=", "0", NL, "A", "=", "0", NL>>,
      <<"#", "c", NL, " ", "B", "=", "0", " ", NL>> }

MacroFileTexts ==
    { <<"A", "=", "1", NL>>,
      <<"#", "m", NL, "A", "=", "1", NL, "B", "=", "2", NL>>,
      <<"X", "A", "=", "3", NL, "A", "=", "1", NL>> }

InitDirs ==
    { d \in UNION { [S -> FileTexts] :
                    S \in SUBSET {EXAMPLE_RELEASE_local, RELEASE_local,
                                  CONFIG_SITE, README_md} } :
        README_md \in DOMAIN d => d[README_md] = <<"A", "=", "0", NL>> }

InitMacros ==
    /\ ManifestIdle
    /\ ConfigIdle
    /\ DiskIdle
    /\ dir_exists \in BOOLEAN
    /\ files \in InitDirs
    /\ old_dir = FALSE
    /\ old_files = <<>>
    /\ macro_replace_list \in {get_macro_replace_from_file(<<>>, t) : t \in MacroFileTexts}
    /\ calls = 0

\* one call update_macros(macro_replace_list, target_dir)
UpdateMacros ==
    /\ calls < MaxCalls
    /\ calls' = calls + 1
    /\ UNCHANGED dir_exists
    /\ IF dir_exists
       THEN \E order \in Perms(ListDir) :
              LET st == update_macros(macro_replace_list, files, old_files, order)
              IN  /\ files' = st.files
                  /\ old_files' = st.old_files
                  /\ old_dir' = TRUE
                  /\ macro_replace_list' = st.macros
       ELSE UNCHANGED <<files, old_dir, old_files, macro_replace_list>>
    /\ UNCHANGED <<manifest_vars, install_config, disk_vars>>

NextMacros == UpdateMacros

SpecMacros == InitMacros /\ [][NextMacros]_vars


MacrosIdle ==
    /\ dir_exists = FALSE
    /\ files = <<>>
    /\ old_dir = FALSE
    /\ old_files = <<>>
    /\ macro_replace_list = <<>>
    /\ calls = 0

macro_vars == <<dir_exists, files, old_dir, old_files, macro_replace_list, calls>>

(***************************************************************************)
(* The configuration the tests build                                       *)
(***************************************************************************)
InitConfig == ManifestIdle /\ ConfigIdle /\ DiskIdle /\ MacrosIdle

\* install_config.add_module(module)
AddModule ==
    /\ Len(install_config.modules) < MaxModules
    /\ \E module \in TestModules : install_config' = add_module(install_config, module)
    /\ UNCHANGED <<manifest_vars, disk_vars, macro_vars>>

\* reset() of the tests: install_config.modules.clear()
Reset ==
    /\ install_config.modules # <<>>
    /\ install_config' = [install_config EXCEPT !.modules = <<>>]
    /\ UNCHANGED <<manifest_vars, disk_vars, macro_vars>>

NextConfig == AddModule \/ Reset

SpecConfig == InitConfig /\ [][NextConfig]_vars

(***************************************************************************)
(* ConfigParser (installSynApps/IO/config_parser.py)                       *)
(***************************************************************************)
\* the tabs left in the line
TabsKept(s) == s

\* re.sub('\t', ' ', line)
TabsToSpaces(s) == [i \in 1..Len(s) |-> IF s[i] = "\t" THEN " " ELSE s[i]]

AttributeError == <<"raise AttributeError">>

\* install_config is None
NoneConfig == [is_None |-> TRUE]

\* parse_line_to_module(line, current_url, current_url_type): the
\* InstallModule, or IndexError for a line of fewer than six fields
parse_line_to_module(line, current_url, current_url_type) ==
    LET module_components == Split(CollapseSpaces(TabsToSpaces(line)), " ")
    IN  IF Len(module_components) < 6 THEN [raised |-> IndexError]
        ELSE InstallModule(module_components[1], module_components[2],
                           module_components[3], current_url_type, current_url,
                           module_components[4], module_components[5],
                           module_components[6])

\* the words of fp.read().split()
RECURSIVE Words(_, _)
Words(s, word) ==
    IF s = <<>> THEN (IF word = <<>> THEN <<>> ELSE <<word>>)
    ELSE IF IsSpace(Head(s))
    THEN (IF word = <<>> THEN <<>> ELSE <<word>>) \o Words(Tail(s), <<>>)
    ELSE Words(Tail(s), Append(word, Head(s)))

\* the loop of parse_macro_file over the words of the file
RECURSIVE MacrosOfWords(_)
MacrosOfWords(contents) ==
    IF contents = <<>> THEN <<>>
    ELSE LET line == Head(contents)
         IN  (IF ~StartsWith(line, <<"#">>) /\ Len(line) > 1 /\ Contains(line, <<"=">>)
              THEN <<Split(line, "=")>> ELSE <<>>)
             \o MacrosOfWords(Tail(contents))

\* parse_macro_file(macro_file_name, install_config), the file holding text
parse_macro_file(text, cfg) == add_macros(cfg, MacrosOfWords(Words(text, <<>>)))

\* the loop of parse_injector_file: r is contents and link so far
RECURSIVE InjectorLines(_, _)
InjectorLines(r, lines) ==
    IF lines = <<>> THEN r
    ELSE LET line == Head(lines)
             next ==
                IF ~StartsWith(line, <<"#">>) /\ Len(line) > 1
                THEN IF StartsWith(line, <<"__TARGET_LOC__", "=">>)
                     THEN [r EXCEPT !.link = Split(Strip(line), "=")[2]]
                     ELSE [r EXCEPT !.contents = @ \o line]
                ELSE r
         IN  InjectorLines(next, Tail(lines))

\* parse_injector_file(injector_file_name, install_config), the file holding text
parse_injector_file(injector_file_name, text, cfg) ==
    LET r == InjectorLines([contents |-> <<>>, link |-> <<>>], ReadLines(text))
    IN  add_injector_file(cfg, injector_file_name, r.contents, r.link)

\* configure/injectionFiles and configure/macroFiles: one file each
InjectionFileName == <<"AD_RELEASE_CONFIG">>

InjectionFileText ==
    <<"#", " ", "release", NL>>
    \o <<"__TARGET_LOC__", "=">> \o M("AREA_DETECTOR")
    \o <<"/", "configure", "/", "RELEASE_PRODS", ".", "local", NL>>
    \o <<"ADSIM", "=">> \o M("AREA_DETECTOR") \o <<"/", "ADSimDetector", NL>>

MacroFileText == <<"#", "flags", NL, "WITH_BOOST", "=", "NO", " ", "JPEG_EXTERNAL", "=", "NO", NL>>

\* read_injector_files(install_config)
read_injector_files(cfg) ==
    IF cfg = NoneConfig THEN cfg
    ELSE parse_injector_file(InjectionFileName, InjectionFileText, cfg)

\* read_build_flags(install_config)
read_build_flags(cfg) ==
    IF cfg = NoneConfig THEN cfg ELSE parse_macro_file(MacroFileText, cfg)

\* the INSTALL= branch of the loop; env.install_valid is what
\* install_config.is_install_valid() answers, env.mkdir_ok whether os.mkdir
\* of the install location succeeds
InstallBranch(r, line, env) ==
    LET install_loc == IF env.force_location = None
                       THEN Split(line, "=")[Len(Split(line, "="))]
                       ELSE env.force_location
        cfg == InstallConfiguration(install_loc, <<"configure">>)
        made == [r EXCEPT !.install_config = cfg]
    IN  IF env.install_valid < 0
        THEN IF ~env.allow_illegal
             THEN [made EXCEPT !.returned = TRUE, !.result = NoneConfig,
                               !.message = <<"Permission Error">>]
             ELSE [made EXCEPT !.message = <<"Permission Error">>]
        ELSE IF env.install_valid = 0 /\ ~env.mkdir_ok
        THEN IF ~env.allow_illegal
             THEN [made EXCEPT !.returned = TRUE, !.result = NoneConfig,
                               !.message = <<"Install filepath not valid">>]
             ELSE [made EXCEPT !.message = <<"Install filepath not valid">>]
        ELSE made

\* the module-row branch of the loop
ModuleBranch(r, line) ==
    LET install_module == parse_line_to_module(line, r.current_url, r.current_url_type)
    IN  IF "raised" \in DOMAIN install_module
        THEN [r EXCEPT !.raised = install_module.raised]
        ELSE IF r.install_config = NoneConfig THEN [r EXCEPT !.raised = AttributeError]
        ELSE [r EXCEPT !.install_config = add_module(@, install_module)]

\* the line is one the loop acts on
Significant(line) == ~StartsWith(line, <<"#">>) /\ Len(line) > 1

\* the body of the while loop of parse_install_config for one line
ParseLine(r, raw, env) ==
    LET line == Strip(raw)
    IN  IF r.returned \/ r.raised # <<>> \/ ~Significant(line) THEN r
        ELSE IF StartsWith(line, <<"INSTALL", "=">>) THEN InstallBranch(r, line, env)
        ELSE IF StartsWith(line, <<"GIT_URL">>) \/ StartsWith(line, <<"WGET_URL">>)
        THEN IF Len(Split(line, "=")) < 2 THEN [r EXCEPT !.raised = IndexError]
             ELSE [r EXCEPT !.current_url = Split(line, "=")[2],
                            !.current_url_type = Split(line, "=")[1]]
        ELSE ModuleBranch(r, line)

RECURSIVE ParseLines(_, _, _)
ParseLines(r, lines, env) ==
    IF lines = <<>> THEN r
    ELSE ParseLines(ParseLine(r, Head(lines), env), Tail(lines), env)

\* parse_install_config(config_filename, force_location, allow_illegal) on
\* the manifest text: what it returns, or what it raises
parse_install_config(text, env) ==
    IF ~env.exists
    THEN [status |-> "returned", install_config |-> NoneConfig,
          message |-> <<"Configure Path not found">>]
    ELSE LET r == ParseLines([install_config |-> NoneConfig, current_url |-> <<>>,
                              current_url_type |-> <<>>, message |-> <<>>,
                              returned |-> FALSE, result |-> NoneConfig,
                              raised |-> <<>>],
                             ReadLines(text), env)
         IN  IF r.raised # <<>> THEN [status |-> "raised", raised |-> r.raised]
             ELSE IF r.returned
             THEN [status |-> "returned", install_config |-> r.result,
                   message |-> r.message]
             ELSE [status |-> "returned",
                   install_config |-> read_build_flags(read_injector_files(r.install_config)),
                   message |-> r.message]

(***************************************************************************)
(* Manifests                                                               *)
(***************************************************************************)
MaxLines == 4

Row(name, version, rel_path, repository) ==
    <<name, " ", version, " ">> \o rel_path
    \o <<" ", repository, " ", "YES", " ", "YES", NL>>

INSTALL_line == <<"INSTALL", "=", "/", "epics", NL>>
GIT_URL_line == <<"GIT_URL", "=", "https://github.com/epics-base/", NL>>
WGET_URL_line == <<"WGET_URL", "=", "https://epics.anl.gov/download/", NL>>
comment_line == <<"#", " ", "modules", NL>>
base_row == Row("EPICS_BASE", "R7.0.2.2", INSTALL_MACRO \o <<"/", "base">>, "base")
support_row == Row("SUPPORT", "R6-0", INSTALL_MACRO \o <<"/", "support">>, "support")
ad_row == Row("AREA_DETECTOR", "R3-6", M("SUPPORT") \o <<"/", "areaDetector">>, "ad")
dummy_row == Row("DUMMY", "R1-0", M("AREA_DETECTOR") \o <<"/", "dummy">>, "dummy")
extra_row == Row("EXTRA", "R1-0", M("EPICS_BASE") \o <<"/", "extra">>, "extra")

ScriptLineSet ==
    {INSTALL_line, GIT_URL_line, comment_line, base_row, support_row, ad_row,
     dummy_row, extra_row}

RECURSIVE Flatten(_)
Flatten(lines) == IF lines = <<>> THEN <<>> ELSE Head(lines) \o Flatten(Tail(lines))

\* the texts of up to MaxLines lines of the set
ManifestsOf(LineSet) ==
    {Flatten(ls) : ls \in UNION {[1..n -> LineSet] : n \in 0..MaxLines}}

InitScript ==
    /\ manifest \in ManifestsOf(ScriptLineSet)
    /\ script_result = NotRun
    /\ parse_env = NoEnv
    /\ parse_result = NotRun
    /\ ConfigIdle
    /\ DiskIdle
    /\ MacrosIdle

\* one run of read_install_config_file()
ReadInstallConfigFile ==
    /\ script_result = NotRun
    /\ LET r == read_install_config_file(manifest)
       IN  script_result' =
             IF r.raised # <<>> THEN [status |-> "raised", raised |-> r.raised]
             ELSE [status |-> "returned", current_modules |-> r.current_modules,
                   install_location |-> r.install_location]
    /\ UNCHANGED <<manifest, parse_env, parse_result, install_config, disk_vars, macro_vars>>

NextScript == ReadInstallConfigFile

SpecScript == InitScript /\ [][NextScript]_vars

\* a row of five fields
short_row == <<"ASYN", " ", "R4-35", " ">> \o M("SUPPORT") \o <<"/", "asyn", " ", "asyn", " ", "YES", NL>>

\* a row with a tab and a run of spaces between its fields
tab_row ==
    <<"SUPPORT", "\t", "R6-0", " ", " ">> \o INSTALL_MACRO
    \o <<"/", "support", " ", "support", " ", "YES", " ", "YES", NL>>

ParseLineSet == {INSTALL_line, GIT_URL_line, comment_line, tab_row, ad_row, short_row}

\* what parse_install_config is called with and what it finds
ParseEnvs ==
    {[exists |-> e, force_location |-> f, allow_illegal |-> a, install_valid |-> v,
      mkdir_ok |-> m] :
        e \in BOOLEAN, f \in {None, TestRoot}, a \in BOOLEAN, v \in {-1, 0, 1},
        m \in BOOLEAN}

InitParse ==
    /\ manifest \in ManifestsOf(ParseLineSet)
    /\ parse_env \in {env \in ParseEnvs :
            /\ ~env.exists => env = [exists |-> FALSE, force_location |-> None,
                                     allow_illegal |-> FALSE, install_valid |-> 1,
                                     mkdir_ok |-> TRUE]
            /\ env.install_valid # 0 => env.mkdir_ok
            /\ env.force_location # None => env.install_valid = 1 /\ ~env.allow_illegal
            /\ env.install_valid = 1 => ~env.allow_illegal}
    /\ parse_result = NotRun
    /\ script_result = NotRun
    /\ ConfigIdle
    /\ DiskIdle
    /\ MacrosIdle

\* one call of parse_install_config
ParseInstallConfig ==
    /\ parse_result = NotRun
    /\ parse_result' = parse_install_config(manifest, parse_env)
    /\ UNCHANGED <<manifest, script_result, parse_env, install_config, disk_vars, macro_vars>>

NextParse == ParseInstallConfig

SpecParse == InitParse /\ [][NextParse]_vars

(***************************************************************************)
(* Manifests with URL directives, read by the script and by the parser     *)
(***************************************************************************)
\* a directive whose URL has a query, and so a second =
query_url_line ==
    <<"WGET_URL", "=", "https://epics.anl.gov/download?file", "=", "base.tar.gz", NL>>

DirectiveLineSet ==
    {INSTALL_line, GIT_URL_line, WGET_URL_line, query_url_line, base_row, support_row}

\* the manifest is there and its install location is there and writable
UsableEnv ==
    [exists |-> TRUE, force_location |-> None, allow_illegal |-> FALSE,
     install_valid |-> 1, mkdir_ok |-> TRUE]

InitDirectives ==
    /\ manifest \in ManifestsOf(DirectiveLineSet)
    /\ parse_env = UsableEnv
    /\ parse_result = NotRun
    /\ script_result = NotRun
    /\ ConfigIdle
    /\ DiskIdle
    /\ MacrosIdle

NextDirectives == ReadInstallConfigFile \/ ParseInstallConfig

SpecDirectives == InitDirectives /\ [][NextDirectives]_vars

(***************************************************************************)
(* Injections                                                              *)
(***************************************************************************)
MaxInjects == 2

InjectorPath(filename) == <<"configure", "/", "injectionFiles", "/", filename>>

InjectorPaths == {InjectorPath("AD_RELEASE_CONFIG"), InjectorPath("PLUGIN_CONFIG")}

FragmentTexts ==
    { <<"ADSIM", "=", "1", NL, "ADPILATUS", "=", "2", NL>>,
      <<"#", "c", NL, NL, "ADSIM", "=", "1", NL, "x">>,
      <<"ADSIM", "=", "1", NL, "#", "c", NL, "ADPILATUS", "=", "2">> }

\* what a target holds before the first injection: one line, with its line
\* end or without
TargetTexts == {<<"old", NL>>, <<"old">>}

\* the configuration with SUPPORT and AREA_DETECTOR added, and the one with
\* no module
ConfigWithAD ==
    add_module(add_module(InstallConfiguration(TestRoot, <<"configure">>),
                          support_module), ad_module)

ADRoot == TestRoot \o <<"/", "support", "/", "areaDetector">>

TargetPaths ==
    {ADRoot \o <<"/", "configure", "/", "RELEASE_PRODS", ".", "local">>,
     ADRoot \o <<"/", "ADCore", "/", "iocBoot", "/", "commonPlugins", ".", "cmd">>}

InitInject ==
    /\ ManifestIdle
    /\ MacrosIdle
    /\ install_config \in {ConfigWithAD, InstallConfiguration(TestRoot, <<"configure">>)}
    /\ disk_dirs \in SUBSET {DirName(t) : t \in TargetPaths}
    /\ \E fragments \in [InjectorPaths -> FragmentTexts] :
       \E targets \in UNION {[T -> TargetTexts] :
                                T \in SUBSET {t \in TargetPaths : DirName(t) \in disk_dirs}} :
          disk_files = [x \in InjectorPaths \cup DOMAIN targets |->
                            IF x \in InjectorPaths THEN fragments[x] ELSE targets[x]]
    /\ inject_result = NotRun
    /\ injects = 0

\* one call inject_to_file(injector_file_path)
InjectToFile ==
    /\ injects < MaxInjects
    /\ injects' = injects + 1
    /\ \E injector_file_path \in InjectorPaths :
          LET r == inject_to_file(install_config, disk_dirs, disk_files, injector_file_path)
          IN  /\ disk_files' = r.files
              /\ inject_result' = [status |-> r.status,
                                   injector_file_path |-> injector_file_path]
    /\ UNCHANGED <<manifest_vars, install_config, disk_dirs, macro_vars>>

NextInject == InjectToFile

SpecInject == InitInject /\ [][NextInject]_vars

(***************************************************************************)
(* Properties of add_module                                                *)
(***************************************************************************)
\* the NAME of a path that starts $(NAME), "" for a path that does not
LeadingMacro(path) ==
    IF Len(path) >= 4 /\ path[1] = "$" /\ path[2] = "(" /\ path[4] = ")"
    THEN path[3] ELSE ""

\* what follows the leading $(NAME)
Rest(path) == SubSeq(path, 5, Len(path))

\* the absolute path of the last module of that name, None when there is none
RECURSIVE LastPathOf(_, _)
LastPathOf(modules, name) ==
    IF modules = <<>> THEN None
    ELSE IF modules[Len(modules)].name = name THEN modules[Len(modules)].abs_path
    ELSE LastPathOf(SubSeq(modules, 1, Len(modules) - 1), name)

C1_Resolved ==
    LET modules == install_config.modules
    IN  \A i \in 1..Len(modules) :
          LET name == LeadingMacro(modules[i].rel_path)
              rest == Rest(modules[i].rel_path)
              earlier == {j \in 1..(i - 1) : modules[j].name = <<name>>}
          IN  /\ name = "INSTALL" =>
                    modules[i].abs_path = install_config.install_location \o rest
              /\ earlier # {} =>
                    \E j \in earlier : modules[i].abs_path = modules[j].abs_path \o rest

C1_WellKnown ==
    LET modules == install_config.modules
        named(name) == \E i \in 1..Len(modules) : modules[i].name = name
    IN  /\ named(<<"EPICS_BASE">>) =>
              install_config.base_path = LastPathOf(modules, <<"EPICS_BASE">>)
        /\ named(<<"SUPPORT">>) =>
              install_config.support_path = LastPathOf(modules, <<"SUPPORT">>)
        /\ named(<<"AREA_DETECTOR">>) =>
              install_config.ad_path = LastPathOf(modules, <<"AREA_DETECTOR">>)

\* test_add_base and test_add_support_ad
C1_Tests ==
    LET modules == install_config.modules
        rels == [i \in 1..Len(modules) |-> <<modules[i].name, modules[i].rel_path>>]
    IN  /\ rels = << <<base_module.name, base_module.rel_path>> >> =>
              install_config.base_path = TestRoot \o <<"/", "base">>
        /\ rels = << <<support_module.name, support_module.rel_path>>,
                     <<ad_module.name, ad_module.rel_path>> >> =>
              /\ install_config.support_path = TestRoot \o <<"/", "support">>
              /\ install_config.ad_path =
                    TestRoot \o <<"/", "support", "/", "areaDetector">>

\* an add_module call appends one module to the modules there are
C1_Step ==
    install_config'.modules # <<>> =>
        /\ Len(install_config'.modules) = Len(install_config.modules) + 1
        /\ SubSeq(install_config'.modules, 1, Len(install_config.modules))
              = install_config.modules

ScriptRowSet == {base_row, support_row, ad_row, dummy_row, extra_row}

\* the module rows of the manifest, in order
RECURSIVE ScriptRows(_)
ScriptRows(lines) ==
    IF lines = <<>> THEN <<>>
    ELSE (IF Head(lines) \in ScriptRowSet THEN <<Head(lines)>> ELSE <<>>)
         \o ScriptRows(Tail(lines))

\* the third field of a row, as the manifest has it
RelPathOf(row) == Split(row, " ")[3]

\* the modules before the j-th that are called name
Earlier(current_modules, name, j) ==
    {k \in 1..(j - 1) : current_modules[k][1] = name}

First(S) == CHOOSE k \in S : \A x \in S : k <= x

\* C2: in a run that returned, the path of a module whose row has
\* $(M)/rest is the path of M followed by /rest where a module M stands
\* above the row, and is None, which no resolved path is, where none does.
C2_ResolutionOrderDependent ==
    script_result.status = "returned" =>
        LET rows == ScriptRows(ReadLines(manifest))
            current_modules == script_result.current_modules
        IN  /\ Len(current_modules) = Len(rows)
            /\ \A j \in 1..Len(rows) :
                  LET path == RelPathOf(rows[j])
                      before == Earlier(current_modules, MacroName(path), j)
                  IN  MacroName(path) # <<"INSTALL">> =>
                         IF before # {}
                         THEN current_modules[j][3] =
                                 current_modules[First(before)][3] \o AfterParen(path)
                         ELSE current_modules[j][3] = None

(***************************************************************************)
(* Properties of parse_install_config                                      *)
(***************************************************************************)
ManifestLines == ReadLines(manifest)

SixFieldRows == {tab_row, ad_row}

FiveFieldRows == {short_row}

\* name and relative path a six-field row stands for
ExpectedOf(row) ==
    IF row = tab_row
    THEN [name |-> <<"SUPPORT">>, version |-> <<"R6-0">>,
          rel_path |-> INSTALL_MACRO \o <<"/", "support">>, repository |-> <<"support">>]
    ELSE [name |-> <<"AREA_DETECTOR">>, version |-> <<"R3-6">>,
          rel_path |-> M("SUPPORT") \o <<"/", "areaDetector">>, repository |-> <<"ad">>]

IsModuleRow(line) == line \in SixFieldRows

ModuleRows == SelectSeq(ManifestLines, IsModuleRow)

\* one INSTALL= line, above every module row, and no row short of fields
WellFormed ==
    /\ Cardinality({i \in 1..Len(ManifestLines) : ManifestLines[i] = INSTALL_line}) = 1
    /\ \A i \in 1..Len(ManifestLines) :
          /\ ManifestLines[i] \notin FiveFieldRows
          /\ ManifestLines[i] \in SixFieldRows =>
                \E j \in 1..(i - 1) : ManifestLines[j] = INSTALL_line

\* the configuration holds the modules of the rows, in the order of the rows
ModulesInManifestOrder(cfg) ==
    /\ cfg # NoneConfig
    /\ Len(cfg.modules) = Len(ModuleRows)
    /\ \A i \in 1..Len(ModuleRows) :
          /\ cfg.modules[i].name = ExpectedOf(ModuleRows[i]).name
          /\ cfg.modules[i].version = ExpectedOf(ModuleRows[i]).version
          /\ cfg.modules[i].rel_path = ExpectedOf(ModuleRows[i]).rel_path
          /\ cfg.modules[i].repository = ExpectedOf(ModuleRows[i]).repository

Parsed == parse_result # NotRun /\ parse_env.exists

\* the install location is there and writable, or can be made
InstallUsable ==
    parse_env.install_valid > 0 \/ (parse_env.install_valid = 0 /\ parse_env.mkdir_ok)

InstallMessages == {<<"Permission Error">>, <<"Install filepath not valid">>}

StructuralError ==
    \E i \in 1..Len(ManifestLines) :
        \/ ManifestLines[i] \in FiveFieldRows
        \/ /\ ManifestLines[i] \in SixFieldRows
           /\ \A j \in 1..(i - 1) : ManifestLines[j] # INSTALL_line

\* C7 (as claimed): a manifest with a structural error makes
\* parse_install_config return no configuration and a message; it never
\* raises and never returns a configuration.
C7_StructuralErrorTagged ==
    (Parsed /\ StructuralError) =>
        /\ parse_result.status = "returned"
        /\ parse_result.install_config = NoneConfig
        /\ parse_result.message # <<>>

(***************************************************************************)
(* Properties of inject_to_file                                            *)
(***************************************************************************)
\* a line without its line end
Content(line) ==
    IF line # <<>> /\ line[Len(line)] = NL THEN SubSeq(line, 1, Len(line) - 1) ELSE line

\* the fragment lines that are no comment and not empty
NonCommentNonEmpty(line) == line[1] # "#" /\ Content(line) # <<>>

RECURSIVE KeepNonEmpty(_)
KeepNonEmpty(lines) ==
    IF lines = <<>> THEN <<>>
    ELSE (IF NonCommentNonEmpty(Head(lines)) THEN Head(lines) ELSE <<>>)
         \o KeepNonEmpty(Tail(lines))

\* the target of the fragment the step injects, and the fragment
InjectedTarget ==
    convert_path_abs(install_config,
                     injector_file_links[<<inject_result'.injector_file_path[5]>>])

InjectedFragment == disk_files[inject_result'.injector_file_path]

\* C4: an injection into a target that is there leaves it
\* holding its text, the start marker, every fragment line that is no
\* comment and not empty, and the end marker; an injection into a target
\* that is not there fails with TargetNotFound and makes no file.
C4_InjectAppendsOrFails ==
    [][injects' = injects + 1 =>
        /\ InjectedTarget \in DOMAIN disk_files =>
              /\ inject_result'.status = "returned"
              /\ disk_files'[InjectedTarget] =
                    disk_files[InjectedTarget] \o START_MARKER
                    \o KeepNonEmpty(ReadLines(InjectedFragment))
                    \o END_MARKER
        /\ InjectedTarget \notin DOMAIN disk_files =>
              /\ inject_result'.status = "raised TargetNotFound"
              /\ InjectedTarget \notin DOMAIN disk_files']_vars

(***************************************************************************)
(* Properties of the URL directives                                        *)
(***************************************************************************)
DirectiveRowSet == {base_row, support_row}

IsDirective(line) == line[1] \in {"GIT_URL", "WGET_URL"}

\* the full text after the = of a directive
AfterEquals(line) == SubSeq(Content(line), 3, Len(Content(line)))

\* for every module row of the lines, in order, the URL and the URL type of
\* the last directive above it; url and url_type are those in force at the
\* head of the lines
RECURSIVE UrlsOfRows(_, _, _)
UrlsOfRows(lines, url, url_type) ==
    IF lines = <<>> THEN <<>>
    ELSE IF IsDirective(Head(lines))
    THEN UrlsOfRows(Tail(lines), AfterEquals(Head(lines)), <<Head(lines)[1]>>)
    ELSE (IF Head(lines) \in DirectiveRowSet
          THEN <<[url |-> url, url_type |-> url_type]>> ELSE <<>>)
         \o UrlsOfRows(Tail(lines), url, url_type)

\* the manifest has one INSTALL= line: no second one starts the
\* configuration anew
OneInstallLine ==
    Cardinality({i \in 1..Len(ManifestLines) : ManifestLines[i] = INSTALL_line}) = 1

\* C11: in the configuration the parser returns for a manifest with one
\* INSTALL= line, and in the list the script returns, every module row has
\* the URL type of the last GIT_URL= or WGET_URL= directive above it and,
\* as its url, the full text after the = of that directive (both empty
\* where no directive stands above the row).
C11_RowsTakeLatestDirective ==
    LET expected == UrlsOfRows(ReadLines(manifest), <<>>, <<>>)
    IN  /\ (parse_result.status = "returned"
            /\ parse_result.install_config # NoneConfig
            /\ OneInstallLine) =>
              LET modules == parse_result.install_config.modules
              IN  /\ Len(modules) = Len(expected)
                  /\ \A i \in 1..Len(expected) :
                        /\ modules[i].url = expected[i].url
                        /\ modules[i].url_type = expected[i].url_type
        /\ script_result.status = "returned" =>
              LET current_modules == script_result.current_modules
              IN  /\ Len(current_modules) = Len(expected)
                  /\ \A j \in 1..Len(expected) :
                        /\ current_modules[j][7] = expected[j].url
                        /\ current_modules[j][8] = expected[j].url_type

(***************************************************************************)
(* Properties of the macro updater                                         *)
(***************************************************************************)
\* the lines of a text, stripped
StrippedLines(text) == [i \in 1..Len(ReadLines(text)) |-> Strip(ReadLines(text)[i])]

\* the active (uncommented) key=value lines of text that set key
ActiveLinesOf(text, key) ==
    {i \in 1..Len(StrippedLines(text)) :
        /\ ~StartsWith(StrippedLines(text)[i], <<"#">>)
        /\ Contains(StrippedLines(text)[i], <<"=">>)
        /\ Split(StrippedLines(text)[i], "=")[1] = key}

\* the lines of text that are exactly the line the macro writes
LinesOfMacro(text, macro) ==
    {i \in 1..Len(ReadLines(text)) : ReadLines(text)[i] = FormatMacro(macro)}

\* C5 (as claimed): after update_macros has run twice with the same macro
\* list on the same directory, every rewritten eligible file holds every
\* macro key in exactly one active key=value line.
C5_TwoRunsOneActiveLine ==
    (dir_exists /\ calls = 2) =>
        \A f \in DOMAIN files : \A i \in 1..Len(macro_replace_list) :
            Cardinality(ActiveLinesOf(files[f], macro_replace_list[i][1])) = 1

\* C6 (as claimed): a call moves every regular file of the directory into
\* OLD_FILES under its name, so that OLD_FILES/<name> holds the content the
\* file had before the call; and a file that is not eligible is gone from
\* its place afterwards.
C6_BackupHoldsOriginal ==
    [][(dir_exists /\ calls' = calls + 1) =>
         \A f \in DOMAIN files :
            /\ f \in DOMAIN old_files'
            /\ old_files'[f] = files[f]
            /\ (~Eligible(f) => f \notin DOMAIN files')]_vars

\* C8 (as claimed): after one call every macro pair of the list is a
\* key=value line of every rewritten eligible file.
C8_EveryPairInEveryFile ==
    (dir_exists /\ calls = 1) =>
        \A f \in DOMAIN files : \A i \in 1..Len(macro_replace_list) :
            LinesOfMacro(files[f], macro_replace_list[i]) # {}

\* C9: in a rewritten file a macro pair has written at most one line.  The
\* lines of a rewritten file that are no comments are the lines the pairs
\* wrote, so: no pair's key=value line occurs in a rewritten file more often
\* than the pair occurs in the list, however many lines held its key=.
C9_AtMostOneSubstitution ==
    (dir_exists /\ calls >= 1) =>
        \A f \in DOMAIN files : \A i \in 1..Len(macro_replace_list) :
            Cardinality(LinesOfMacro(files[f], macro_replace_list[i])) <=
                Cardinality({j \in 1..Len(macro_replace_list) :
                    FormatMacro(macro_replace_list[j]) = FormatMacro(macro_replace_list[i])})

\* C9's case: a rewritten file where a pair replaced a line and a later line
\* that holds its key= was left to be commented out.
C9_Witness ==
    /\ dir_exists /\ calls = 1
    /\ \E f \in DOMAIN files : \E m \in 1..Len(macro_replace_list) :
       \E i, j \in 1..Len(ReadLines(files[f])) :
          /\ i < j
          /\ ReadLines(files[f])[i] = FormatMacro(macro_replace_list[m])
          /\ StartsWith(ReadLines(files[f])[j], <<"#">>)
          /\ KeyInLine(macro_replace_list[m], ReadLines(files[f])[j])

\* C10 (as claimed): every line of the original is rewritten as exactly one
\* line, so the rewritten file has one line per original line and one per
\* macro pair that was never consumed; stated for a directory of one
\* eligible file, where the pairs left unconsumed are those of that file.
C10_OneLinePerLine ==
    [][(dir_exists /\ calls' = calls + 1) =>
         \A f \in DOMAIN files :
            (DOMAIN files = {f} /\ Eligible(f)) =>
                Len(ReadLines(files'[NewName(f)])) =
                    Len(ReadLines(files[f]))
                    + Cardinality({i \in 1..Len(macro_replace_list') :
                                      Unconsumed(macro_replace_list'[i])})]_vars

=============================================================================
